---- MODULE Spec2Model ----
(***************************************************************************)
(* The CF ladder dashboard (src/unnamed/part_000, the current script, with *)
(* src/script.js its legacy version): the Problem Merger, the Submission   *)
(* Reconciler, the Filter Engine and the Analytics Aggregator, as the      *)
(* event handlers of the page drive them.                                  *)
(*                                                                         *)
(* Text (handles, problem identities, CSV cells) is a sequence of          *)
(* one-character strings, so that trim() and the `${contestId}${index}`    *)
(* concatenation are computed and not assumed.                             *)
(***************************************************************************)
EXTENDS Integers, Sequences, FiniteSets, TLC

\* ---------------------------------------------------------------- bounds
\* longest submission list of a user.status response (besides ExampleWireList)
MaxSubs == 2
\* most lookups in flight at the same time
MaxInflight == 2
\* longest problems array of a problemset.problems response
MaxProblems == 3

\* ------------------------------------------------------------------ text
Space == " "

Digit(n) == <<"0", "1", "2", "3", "4", "5", "6", "7", "8", "9">>[n + 1]

\* the decimal text of a non-negative integer, as a template literal prints it
RECURSIVE Dec(_)
Dec(n) == IF n < 10 THEN <<Digit(n)>> ELSE Dec(n \div 10) \o <<Digit(n % 10)>>

RECURSIVE TrimStart(_)
TrimStart(s) ==
    IF s # <<>> /\ Head(s) = Space THEN TrimStart(Tail(s)) ELSE s

RECURSIVE TrimEnd(_)
TrimEnd(s) ==
    IF s # <<>> /\ s[Len(s)] = Space THEN TrimEnd(SubSeq(s, 1, Len(s) - 1)) ELSE s

\* the text as it is, no whitespace removed
Untrimmed(s) == s

\* String.prototype.trim
Trim(s) == TrimEnd(TrimStart(s))

\* Array.prototype.reverse, on a copy
Reverse(s) == [i \in 1..Len(s) |-> s[Len(s) + 1 - i]]

\* Array.prototype.filter
RECURSIVE SelectSeqOf(_, _)
SelectSeqOf(s, keep) ==
    IF s = <<>> THEN <<>>
    ELSE IF Head(s) \in keep THEN <<Head(s)>> \o SelectSeqOf(Tail(s), keep)
    ELSE SelectSeqOf(Tail(s), keep)

Range(s) == {s[i] : i \in 1..Len(s)}

\* `${p.contestId}${p.index}`
ProblemId(p) == Dec(p.contestId) \o p.index

\* ----------------------------------------------------------- JS Map
EmptyMap == [k \in {} |-> "SOLVED"]

\* Map.prototype.get: undefined for a missing key
MapGet(m, k) == IF k \in DOMAIN m THEN m[k] ELSE "undefined"

\* Map.prototype.set
MapSet(m, k, v) == [x \in DOMAIN m \cup {k} |-> IF x = k THEN v ELSE m[x]]

\* ------------------------------------------------- remote user data
\* the problem objects that submissions carry; P2 has no rating field
SubP1 == [contestId |-> 1, index |-> <<"A">>, tags |-> <<"dp">>, rating |-> 800]
SubP2 == [contestId |-> 2, index |-> <<"B">>, tags |-> <<"dp", "math">>]

SubProblems == {SubP1, SubP2}

Verdicts == {"OK", "WRONG_ANSWER"}

Submissions == [problem : SubProblems, verdict : Verdicts]

\* [{P1,WA},{P1,OK},{P2,WA}]
ExampleWireList ==
    <<[problem |-> SubP1, verdict |-> "WRONG_ANSWER"],
      [problem |-> SubP1, verdict |-> "OK"],
      [problem |-> SubP2, verdict |-> "WRONG_ANSWER"]>>

\* user.status result arrays, newest first
WireLists == UNION {[1..n -> Submissions] : n \in 0..MaxSubs} \cup {ExampleWireList}

\* result arrays of the responses that do not get through
FailedWireLists == {<<[problem |-> SubP1, verdict |-> "OK"]>>}

\* One lookup's pair of responses (user.status, user.info):
\*   fetched  FALSE when fetch itself rejects (transport failure)
\*   statusHttp/infoHttp  Response.ok of the two calls
\*   statusEnv/infoEnv    the envelopes' status fields
\*   comment  the user.status envelope's comment ("" when absent)
\*   result   the user.status envelope's result array
LookupResponse(f, sh, ih, se, ie, c, r) ==
    [fetched |-> f, statusHttp |-> sh, infoHttp |-> ih,
     statusEnv |-> se, infoEnv |-> ie, comment |-> c, result |-> r]

GoodResponses ==
    {LookupResponse(TRUE, TRUE, TRUE, "OK", "OK", "", r) : r \in WireLists}

BadResponses ==
    UNION {{LookupResponse(FALSE, FALSE, FALSE, "FAILED", "FAILED", "", r),
            LookupResponse(TRUE, FALSE, TRUE, "OK", "OK", "", r),
            LookupResponse(TRUE, TRUE, FALSE, "OK", "OK", "", r),
            LookupResponse(TRUE, TRUE, TRUE, "FAILED", "OK", "handle not found", r),
            LookupResponse(TRUE, TRUE, TRUE, "OK", "FAILED", "", r)}
           : r \in FailedWireLists}

LookupResponses == GoodResponses \cup BadResponses

\* the lookup responses of the whole-page specification
FewLookupResponses ==
    {LookupResponse(TRUE, TRUE, TRUE, "OK", "OK", "", <<>>),
     LookupResponse(TRUE, TRUE, TRUE, "OK", "OK", "", ExampleWireList),
     LookupResponse(TRUE, TRUE, TRUE, "OK", "OK", "",
                    <<[problem |-> SubP2, verdict |-> "OK"]>>),
     LookupResponse(TRUE, TRUE, TRUE, "FAILED", "OK", "handle not found", <<>>),
     LookupResponse(TRUE, TRUE, FALSE, "OK", "OK", "",
                    <<[problem |-> SubP1, verdict |-> "OK"]>>)}

\* problem objects for the analytics: a third problem of rating 800, and
\* problem 1A as an envelope that lists it with other tags and rating
SubP3 == [contestId |-> 3, index |-> <<"C">>, tags |-> <<"dp">>, rating |-> 800]
SubP1Retagged == [contestId |-> 1, index |-> <<"A">>, tags |-> <<"math">>, rating |-> 900]

\* result arrays with several accepted submissions, of one problem and of many
AnalyticsWireLists ==
    WireLists \cup
    {<<[problem |-> SubP1, verdict |-> "OK"], [problem |-> SubP1Retagged, verdict |-> "OK"]>>,
     <<[problem |-> SubP1Retagged, verdict |-> "OK"], [problem |-> SubP1, verdict |-> "OK"]>>,
     <<[problem |-> SubP3, verdict |-> "OK"], [problem |-> SubP1, verdict |-> "OK"],
       [problem |-> SubP2, verdict |-> "OK"]>>}

\* the lookup responses of the analytics specification
AnalyticsResponses ==
    {LookupResponse(TRUE, TRUE, TRUE, "OK", "OK", "", r) : r \in AnalyticsWireLists}
    \cup {LookupResponse(TRUE, TRUE, TRUE, "FAILED", "OK", "handle not found", <<>>)}

\* what the user may have typed into the handle box when a search is triggered
HandleInputs == {<<"a">>, <<Space, "b", Space>>}

\* the handle box contents of the whole-page specification, one of them blank
FewHandleInputs == {<<Space>>, <<"a">>}

\* what localStorage may hold under cfLadderHandle at page load (<<>>: nothing)
StoredHandles == {<<>>, <<"a">>}

\* ---------------------------------------------- remote problem catalog
\* problemset.problems entries; R2 has no rating field
R1 == [contestId |-> 1, index |-> <<"A">>, rating |-> 800, tags |-> <<"dp">>]
R2 == [contestId |-> 2, index |-> <<"B">>, tags |-> <<"dp", "math">>]
R3 == [contestId |-> 3, index |-> <<"C">>, rating |-> 800, tags |-> <<"dp", "math">>]
R4 == [contestId |-> 4, index |-> <<"D">>, rating |-> 900, tags |-> <<"math">>]
R5 == [contestId |-> 5, index |-> <<"E">>, rating |-> 800, tags |-> <<>>]

RemoteProblems == {R1, R2, R3, R4, R5}

RemoteProblemLists == UNION {[1..n -> RemoteProblems] : n \in 0..MaxProblems}

\* problemStatistics arrays aligned with a problems array of length n
AlignedStatistics(n) ==
    {[i \in 1..n |-> [solvedCount |-> i]],
     [i \in 1..n |-> [solvedCount |-> n - i]]}

\* a problemStatistics array one entry short of the problems array
ShortStatistics(n) == [i \in 1..(n - 1) |-> [solvedCount |-> i]]

\* One problemset.problems response:
\*   fetched  FALSE when fetch or response.json() rejects
\*   status/comment  the envelope's fields
CatalogResponse(f, st, c, ps, stats) ==
    [fetched |-> f, status |-> st, comment |-> c,
     problems |-> ps, problemStatistics |-> stats]

GoodCatalogResponses ==
    {CatalogResponse(TRUE, "OK", "", ps, stats) :
        <<ps, stats>> \in UNION {{<<l, s>> : s \in AlignedStatistics(Len(l))}
                                 : l \in RemoteProblemLists}}

BadCatalogResponses ==
    {CatalogResponse(FALSE, "FAILED", "", <<>>, <<>>),
     CatalogResponse(TRUE, "FAILED", "Call limit exceeded", <<R1>>, <<[solvedCount |-> 1]>>),
     CatalogResponse(TRUE, "OK", "", <<R1, R3>>, ShortStatistics(2))}

CatalogResponses == GoodCatalogResponses \cup BadCatalogResponses

\* the catalog responses of the lookup-centred specification
FewCatalogResponses ==
    {CatalogResponse(TRUE, "OK", "", <<R1, R2, R4>>, <<[solvedCount |-> 7], [solvedCount |-> 0], [solvedCount |-> 3]>>),
     CatalogResponse(TRUE, "FAILED", "Call limit exceeded", <<R1>>, <<[solvedCount |-> 1]>>)}

\* parsed rows of problems.csv: the problem_links cells, in file order
CsvFiles ==
    {<<<<"1", "A">>>>,
     <<<<"4", "D">>, <<Space, "3", "C", Space>>, <<"2", "B">>, <<"1", "A", Space>>, <<"5", "E">>>>}

\* row.problem_links of a row that is shorter than the header: undefined
NoCell == <<"undefined">>

\* the curated files of the two-versions specification: one as above, one
\* with a row that lacks the problem_links cell
LegacyCsvFiles ==
    {<<<<"4", "D">>, <<Space, "1", "A">>, <<"2", "B">>>>,
     <<<<"1", "A">>, NoCell, <<"4", "D", Space>>>>}

\* the lookup responses of the two-versions specification: the user.info
\* call succeeds; a non-OK HTTP response carries a FAILED envelope
LegacyLookupResponses ==
    {LookupResponse(TRUE, TRUE, TRUE, "OK", "OK", "", <<>>),
     LookupResponse(TRUE, TRUE, TRUE, "OK", "OK", "", ExampleWireList),
     LookupResponse(TRUE, TRUE, TRUE, "OK", "OK", "",
                    <<[problem |-> SubP2, verdict |-> "OK"]>>),
     LookupResponse(TRUE, TRUE, TRUE, "FAILED", "OK", "handle not found", <<>>),
     LookupResponse(TRUE, FALSE, TRUE, "FAILED", "OK", "handle not found", <<>>),
     LookupResponse(FALSE, FALSE, TRUE, "FAILED", "OK", "", <<>>)}

\* the curated files and the tag buttons of the whole-page specification
FewCsvFiles == {<<<<"4", "D">>, <<Space, "1", "A">>, <<"2", "B">>>>}
FewTagButtons == {"dp"}

\* the rating buttons and tag buttons of the page (a subset of the lists
\* renderRatingNav and TAGS hold)
RatingButtons == {800, 900}
TagButtons == {"dp", "math"}

\* state.selectedRating = null; the code tests it by truthiness only
NullRating == 0

\* ------------------------------------------------------------ variables
VARIABLES
    allProblems,       \* the working catalog
    ladderProblems,    \* the curated identities
    userSubmissions,   \* the stored submission history
    problemStatusMap,  \* the StatusMap
    state,             \* selectedRating, selectedTags, tagLogic, cfHandle
    handleInput,       \* handleInput.value
    storedHandle,      \* localStorage cfLadderHandle (<<>>: absent)
    statusMessage,     \* statusMessage.textContent
    tableBody,         \* the rows of the problem table
    profileInfo,       \* the profile card (<<>>: empty)
    activeView,        \* which nav link is active
    analytics,         \* what the analytics view holds
    csvPending,        \* fetchCsvData is suspended in readCsv
    problemsPending,   \* fetchProblems is suspended in fetch
    merged,            \* fetchProblems' locals once it has merged: data.result and ladderSet
    catalogData,       \* the envelope fetchProblems resumed with: whether one
                       \* arrived, its status and its comment
    inflight,          \* the fetchUserStatus calls suspended in Promise.all, oldest
                       \* first: the handle of each and whether another call has
                       \* been in flight together with it
    foldTrace,         \* the StatusMap before and after each step of the last
                       \* forEach (the cleared map alone, if none ran since the clear)
    lastDone,          \* the lookup that was resumed last, if none started since,
                       \* and the responses it resumed with
    legacy             \* the legacy script (src/script.js) fed with the same
                       \* events: its ladderProblems, allProblems,
                       \* problemStatusMap, state and table body

vars ==
    <<allProblems, ladderProblems, userSubmissions, problemStatusMap, state,
      handleInput, storedHandle, statusMessage, tableBody, profileInfo,
      activeView, analytics, csvPending, problemsPending, merged, catalogData,
      inflight, foldTrace, lastDone, legacy>>

catalogVars ==
    <<allProblems, ladderProblems, csvPending, problemsPending, merged, catalogData>>
lookupVars == <<inflight, foldTrace, lastDone>>
userVars == <<userSubmissions, problemStatusMap, profileInfo, storedHandle>>

\* updateStatus argument: kind of message, the handle and the detail it embeds
Message(kind, handle, detail) == [kind |-> kind, handle |-> handle, detail |-> detail]

\* ------------------------------------------------------ Problem Merger
\* problems.map((problem, index) => ({...problem, solvedCount: stats[index].solvedCount}))
WithSolvedCount(problem, n) ==
    [f \in DOMAIN problem \cup {"solvedCount"} |->
        IF f = "solvedCount" THEN n ELSE problem[f]]

CombinedData(problems, stats) ==
    [i \in 1..Len(problems) |-> WithSolvedCount(problems[i], stats[i].solvedCount)]

\* stats[index] is undefined for some index: reading .solvedCount throws
MergeThrows(problems, stats) == Len(stats) < Len(problems)

\* the rating filter keeping every problem
AnyRating(p) == TRUE

\* p.rating !== undefined
HasRating(p) == "rating" \in DOMAIN p

\* ladderSet.has(`${p.contestId}${p.index}`)
InLadder(p, ladder) == ProblemId(p) \in Range(ladder)

\* the two filters of fetchProblems over the combined data
MergeCatalog(problems, stats, ladder) ==
    LET combinedData == CombinedData(problems, stats)
        rated == SelectSeqOf(combinedData, {p \in Range(combinedData) : HasRating(p)})
    IN  SelectSeqOf(rated, {p \in Range(rated) : InLadder(p, ladder)})

\* data.map((row) => row.problem_links.trim())
LadderOf(rows) == [i \in 1..Len(rows) |-> Trim(rows[i])]

\* ------------------------------------------------ Submission Reconciler
\* FoldStep without the guard of its else branch
FoldStepNoGuard(m, sub) ==
    LET problemId == ProblemId(sub.problem)
    IN  IF sub.verdict = "OK" THEN MapSet(m, problemId, "SOLVED")
        ELSE MapSet(m, problemId, "ATTEMPTED")

\* FoldStep testing the verdict against a sentinel no submission carries
FoldStepWrongSentinel(m, sub) ==
    LET problemId == ProblemId(sub.problem)
    IN  IF sub.verdict = "ACCEPTED" THEN MapSet(m, problemId, "SOLVED")
        ELSE IF MapGet(m, problemId) # "SOLVED" THEN MapSet(m, problemId, "ATTEMPTED")
        ELSE m

\* FoldStep keeping the status an identity got first
FoldStepFirstWins(m, sub) ==
    LET problemId == ProblemId(sub.problem)
    IN  IF problemId \in DOMAIN m THEN m
        ELSE IF sub.verdict = "OK" THEN MapSet(m, problemId, "SOLVED")
        ELSE MapSet(m, problemId, "ATTEMPTED")

\* the body of submissions.forEach in fetchUserStatus
FoldStep(m, sub) ==
    LET problemId == ProblemId(sub.problem)
    IN  IF sub.verdict = "OK" THEN MapSet(m, problemId, "SOLVED")
        ELSE IF MapGet(m, problemId) # "SOLVED" THEN MapSet(m, problemId, "ATTEMPTED")
        ELSE m

\* the StatusMap before the first step and after each step of a forEach over subs
RECURSIVE FoldTraceFrom(_, _)
FoldTraceFrom(m, subs) ==
    IF subs = <<>> THEN <<m>>
    ELSE <<m>> \o FoldTraceFrom(FoldStep(m, Head(subs)), Tail(subs))

\* the forEach over the list as it came over the wire
ReconcileWireOrder(m, result) == FoldTraceFrom(m, result)

\* [...userSubmissions].reverse() and the forEach over it
Reconcile(m, result) == FoldTraceFrom(m, Reverse(result))

\* fetchUserStatus without the clear()
KeepStatusMap(m) == m

\* problemStatusMap.clear()
ClearStatusMap(m) == EmptyMap

\* LookupFails looking at the user.status call only
LookupFailsStatusOnly(resp) ==
    \/ ~resp.fetched
    \/ ~resp.statusHttp
    \/ resp.statusEnv # "OK"

\* LookupFails giving up as well when no catalog has been merged
LookupFailsWithoutCatalog(resp) ==
    \/ ~resp.fetched
    \/ ~resp.statusHttp \/ ~resp.infoHttp
    \/ resp.statusEnv # "OK" \/ resp.infoEnv # "OK"
    \/ ~merged.done

\* the conditions under which fetchUserStatus throws after Promise.all
LookupFails(resp) ==
    \/ ~resp.fetched
    \/ ~resp.statusHttp \/ ~resp.infoHttp
    \/ resp.statusEnv # "OK" \/ resp.infoEnv # "OK"

\* error.message in the catch block of fetchUserStatus
LookupError(resp) ==
    IF ~resp.fetched THEN "Failed to fetch"
    ELSE IF ~resp.statusHttp \/ ~resp.infoHttp THEN "Could not connect to Codeforces API."
    ELSE IF resp.comment # "" THEN resp.comment
    ELSE "Invalid handle or API error."

\* -------------------------------------------------------- Filter Engine
\* the rating test as a lower bound
RatingAtLeast(p, rating) == "rating" \in DOMAIN p /\ p.rating >= rating

\* p.rating === state.selectedRating (false for a problem without the field)
RatingMatches(p, rating) == "rating" \in DOMAIN p /\ p.rating = rating

\* the tag predicate with some and every exchanged
TagsMatchExchanged(p, selectedTags, tagLogic) ==
    LET problemTags == Range(p.tags)
    IN  IF tagLogic = "OR" THEN \A tag \in selectedTags : tag \in problemTags
        ELSE \E tag \in selectedTags : tag \in problemTags

\* the tag predicate of applyFiltersAndRender
TagsMatch(p, selectedTags, tagLogic) ==
    LET problemTags == Range(p.tags)
    IN  IF tagLogic = "OR" THEN \E tag \in selectedTags : tag \in problemTags
        ELSE \A tag \in selectedTags : tag \in problemTags

\* the status cell of a row
StatusText(status) ==
    IF status = "SOLVED" THEN "Solved"
    ELSE IF status = "ATTEMPTED" THEN "Tried"
    ELSE "-"

\* renderProblemTable leaving out the problems the map holds as SOLVED
RenderUnsolvedRows(problems, map) ==
    LET unsolved == SelectSeqOf(problems,
                        {p \in Range(problems) : MapGet(map, ProblemId(p)) # "SOLVED"})
    IN  [i \in 1..Len(unsolved) |->
            [num |-> i,
             problem |-> unsolved[i],
             statusText |-> StatusText(MapGet(map, ProblemId(unsolved[i])))]]

\* renderProblemTable: <<>> stands for the single placeholder row
RenderProblemTable(problems, map) ==
    [i \in 1..Len(problems) |->
        [num |-> i,
         problem |-> problems[i],
         statusText |-> StatusText(MapGet(map, ProblemId(problems[i])))]]

\* FilterProblems showing the whole catalog while no rating is selected
FilterProblemsNoGate(all, st) ==
    LET byRating == IF st.selectedRating # NullRating
                    THEN SelectSeqOf(all, {p \in Range(all) : RatingMatches(p, st.selectedRating)})
                    ELSE all
    IN  IF Cardinality(st.selectedTags) > 0
        THEN SelectSeqOf(byRating,
                {p \in Range(byRating) : TagsMatch(p, st.selectedTags, st.tagLogic)})
        ELSE byRating

\* FilterProblems listing the most solved problem first
RECURSIVE BySolvedCount(_)
BySolvedCount(s) ==
    IF s = <<>> THEN <<>>
    ELSE LET top == CHOOSE i \in 1..Len(s) :
                        \A j \in 1..Len(s) :
                            \/ s[j].solvedCount < s[i].solvedCount
                            \/ s[j].solvedCount = s[i].solvedCount /\ i <= j
         IN  <<s[top]>> \o BySolvedCount([k \in 1..(Len(s) - 1) |->
                                            IF k < top THEN s[k] ELSE s[k + 1]])

FilterProblemsSorted(all, st) ==
    IF st.selectedRating # NullRating
    THEN LET byRating == SelectSeqOf(all, {p \in Range(all) : RatingMatches(p, st.selectedRating)})
         IN  BySolvedCount(
                IF Cardinality(st.selectedTags) > 0
                THEN SelectSeqOf(byRating,
                        {p \in Range(byRating) : TagsMatch(p, st.selectedTags, st.tagLogic)})
                ELSE byRating)
    ELSE <<>>

\* the rows applyFiltersAndRender computes from a non-empty catalog
FilterProblems(all, st) ==
    IF st.selectedRating # NullRating
    THEN LET byRating == SelectSeqOf(all, {p \in Range(all) : RatingMatches(p, st.selectedRating)})
         IN  IF Cardinality(st.selectedTags) > 0
             THEN SelectSeqOf(byRating,
                     {p \in Range(byRating) : TagsMatch(p, st.selectedTags, st.tagLogic)})
             ELSE byRating
    ELSE <<>>

\* applyFiltersAndRender adding its rows to those the table holds
ApplyFiltersAndAppend(table, all, st, map) ==
    IF Len(all) = 0 THEN table
    ELSE table \o RenderProblemTable(FilterProblems(all, st), map)

\* applyFiltersAndRender: the table body it leaves, given the one it finds
ApplyFiltersAndRender(table, all, st, map) ==
    IF Len(all) = 0 THEN table
    ELSE RenderProblemTable(FilterProblems(all, st), map)

\* -------------------------------------------------- Analytics Aggregator
\* solvedProblems keeping every accepted submission
RECURSIVE SolvedProblemsAll(_, _)
SolvedProblemsAll(subs, seen) ==
    IF subs = <<>> THEN <<>>
    ELSE IF Head(subs).verdict = "OK"
         THEN <<Head(subs).problem>> \o SolvedProblemsAll(Tail(subs), seen)
         ELSE SolvedProblemsAll(Tail(subs), seen)

\* the values of solvedProblems, in insertion order
RECURSIVE SolvedProblems(_, _)
SolvedProblems(subs, seen) ==
    IF subs = <<>> THEN <<>>
    ELSE LET sub == Head(subs)
             problemId == ProblemId(sub.problem)
         IN  IF sub.verdict = "OK" /\ problemId \notin seen
             THEN <<sub.problem>> \o SolvedProblems(Tail(subs), seen \cup {problemId})
             ELSE SolvedProblems(Tail(subs), seen)

TagCounts(solved) ==
    LET slots == UNION {{<<i, j>> : j \in 1..Len(solved[i].tags)} : i \in 1..Len(solved)}
        hits(tag) == {ij \in slots : solved[ij[1]].tags[ij[2]] = tag}
        tags == UNION {Range(solved[i].tags) : i \in 1..Len(solved)}
    IN  [tag \in tags |-> Cardinality(hits(tag))]

RatingCounts(solved) ==
    LET rated == {i \in 1..Len(solved) : "rating" \in DOMAIN solved[i] /\ solved[i].rating # 0}
    IN  [r \in {solved[i].rating : i \in rated} |->
            Cardinality({i \in rated : solved[i].rating = r})]

\* generateAnalytics drawing empty charts when nothing is solved
GenerateAnalyticsZeroBuckets(shown, subs) ==
    LET solved == SolvedProblems(subs, {})
    IN  [messageHidden |-> TRUE, gridHidden |-> FALSE,
         tagCounts |-> TagCounts(solved), ratingCounts |-> RatingCounts(solved)]

\* generateAnalytics returning at once when nothing is solved
GenerateAnalyticsNoSignal(shown, subs) ==
    LET solved == SolvedProblems(subs, {})
    IN  IF Len(solved) = 0
        THEN shown
        ELSE [messageHidden |-> TRUE, gridHidden |-> FALSE,
              tagCounts |-> TagCounts(solved), ratingCounts |-> RatingCounts(solved)]

\* generateAnalytics: what the analytics container holds afterwards
GenerateAnalytics(shown, subs) ==
    LET solved == SolvedProblems(subs, {})
    IN  IF Len(solved) = 0
        THEN [shown EXCEPT !.messageHidden = FALSE, !.gridHidden = TRUE]
        ELSE [messageHidden |-> TRUE, gridHidden |-> FALSE,
              tagCounts |-> TagCounts(solved), ratingCounts |-> RatingCounts(solved)]

\* ------------------------------------------------- the legacy script
\* String(s) of a cell
LegacyString(cell) ==
    IF cell = NoCell THEN <<"u", "n", "d", "e", "f", "i", "n", "e", "d">> ELSE cell

\* new Set(ladderProblems.map((s) => String(s).trim()))
LegacyLadderSet(ladder) == {Trim(LegacyString(ladder[i])) : i \in 1..Len(ladder)}

\* the merge of the legacy fetchProblems
LegacyMergeCatalog(problems, stats, ladder) ==
    LET combinedData == [i \in 1..Len(problems) |->
                            WithSolvedCount(problems[i], stats[i].solvedCount)]
        rated == SelectSeqOf(combinedData,
                    {p \in Range(combinedData) : "rating" \in DOMAIN p})
        ladderSet == LegacyLadderSet(ladder)
    IN  SelectSeqOf(rated, {p \in Range(rated) : ProblemId(p) \in ladderSet})

\* the legacy renderProblemTable
LegacyRenderProblemTable(problems, map) ==
    [i \in 1..Len(problems) |->
        LET status == MapGet(map, ProblemId(problems[i]))
        IN  [num |-> i,
             problem |-> problems[i],
             statusText |-> IF status = "SOLVED" THEN "Solved"
                            ELSE IF status = "ATTEMPTED" THEN "Tried"
                            ELSE "-"]]

\* the legacy applyFiltersAndRender
LegacyApplyFiltersAndRender(table, all, st, map) ==
    IF Len(all) = 0 THEN table
    ELSE IF st.selectedRating = NullRating THEN LegacyRenderProblemTable(<<>>, map)
    ELSE LET byRating == SelectSeqOf(all,
                            {p \in Range(all) :
                                "rating" \in DOMAIN p /\ p.rating = st.selectedRating})
             filtered ==
                IF Cardinality(st.selectedTags) > 0
                THEN SelectSeqOf(byRating,
                        {p \in Range(byRating) :
                            IF st.tagLogic = "OR"
                            THEN \E tag \in st.selectedTags : tag \in Range(p.tags)
                            ELSE \A tag \in st.selectedTags : tag \in Range(p.tags)})
                ELSE byRating
         IN  LegacyRenderProblemTable(filtered, map)

\* the legacy page re-rendered after a change of its state
LegacyRendered(l) ==
    [l EXCEPT !.tableBody =
        LegacyApplyFiltersAndRender(l.tableBody, l.allProblems, l.state, l.problemStatusMap)]

\* csvdata resumes with the parsed rows
LegacyCsvData(l, rows) == [l EXCEPT !.ladderProblems = rows]

\* the legacy fetchProblems resumes with the response
LegacyFetchProblems(l, resp) ==
    IF resp.fetched /\ resp.status = "OK"
       /\ Len(resp.problemStatistics) >= Len(resp.problems)
    THEN LegacyRendered(
            [l EXCEPT !.allProblems =
                LegacyMergeCatalog(resp.problems, resp.problemStatistics, l.ladderProblems)])
    ELSE l

\* the legacy fetchUserStatus up to its await
LegacySearch(l, typed) ==
    IF Trim(typed) = <<>> THEN l
    ELSE [l EXCEPT !.state.cfHandle = Trim(typed), !.problemStatusMap = EmptyMap]

\* the forEach of the legacy fetchUserStatus over data.result.reverse()
RECURSIVE LegacyFold(_, _)
LegacyFold(m, submissions) ==
    IF submissions = <<>> THEN m
    ELSE LET sub == Head(submissions)
             problemId == ProblemId(sub.problem)
         IN  LegacyFold(
                IF sub.verdict = "OK" THEN MapSet(m, problemId, "SOLVED")
                ELSE IF MapGet(m, problemId) # "SOLVED"
                     THEN MapSet(m, problemId, "ATTEMPTED")
                     ELSE m,
                Tail(submissions))

\* the legacy fetchUserStatus resumes with the user.status response
LegacyUserStatus(l, resp) ==
    LegacyRendered(
        IF resp.fetched /\ resp.statusEnv = "OK"
        THEN [l EXCEPT !.problemStatusMap =
                            LegacyFold(l.problemStatusMap, Reverse(resp.result))]
        ELSE l)

\* the legacy rating, logic and tag listeners
LegacyRatingClick(l, newRating) ==
    LegacyRendered([l EXCEPT !.state.selectedRating =
                        IF l.state.selectedRating = newRating THEN NullRating ELSE newRating])

LegacyLogicToggle(l) ==
    LegacyRendered([l EXCEPT !.state.tagLogic =
                        IF l.state.tagLogic = "OR" THEN "AND" ELSE "OR"])

LegacyTagClick(l, tag) ==
    LegacyRendered([l EXCEPT !.state.selectedTags =
                        IF tag \in l.state.selectedTags THEN l.state.selectedTags \ {tag}
                        ELSE l.state.selectedTags \cup {tag}])

\* merged before fetchProblems has merged anything
NotMerged == [done |-> FALSE, problems |-> <<>>, problemStatistics |-> <<>>, ladderSet |-> {}]

\* catalogData while fetchProblems is suspended
NotFetched == [done |-> FALSE, fetched |-> FALSE, status |-> "", comment |-> ""]

\* lastDone when no lookup has been resumed since the last one started
NoLookup ==
    [done |-> FALSE, handle |-> <<>>, overlap |-> FALSE, ok |-> FALSE, result |-> <<>>,
     resp |-> LookupResponse(FALSE, FALSE, FALSE, "", "", "", <<>>)]

\* ----------------------------------------------------------- page load
\* The state init() leaves: loadStateFromLocalStorage has started a lookup
\* for a stored handle, fetchCsvData and fetchProblems are suspended.
Init ==
    \E saved \in StoredHandles :
        LET handle == Trim(saved)
            auto == saved # <<>> /\ handle # <<>>
        IN  /\ allProblems = <<>>
            /\ ladderProblems = <<>>
            /\ userSubmissions = <<>>
            /\ problemStatusMap = EmptyMap
            /\ state = [selectedRating |-> NullRating, selectedTags |-> {},
                        tagLogic |-> "OR", cfHandle |-> IF auto THEN handle ELSE <<>>]
            /\ handleInput = saved
            /\ storedHandle = saved
            /\ statusMessage = Message("Loading all problems...", <<>>, "")
            /\ tableBody = <<>>
            /\ profileInfo = <<>>
            /\ activeView = "problems"
            /\ analytics = [messageHidden |-> FALSE, gridHidden |-> TRUE,
                            tagCounts |-> EmptyMap, ratingCounts |-> EmptyMap]
            /\ csvPending = TRUE
            /\ problemsPending = TRUE
            /\ merged = NotMerged
            /\ catalogData = NotFetched
            /\ inflight = IF auto THEN <<[handle |-> handle, overlap |-> FALSE]>> ELSE <<>>
            /\ foldTrace = <<EmptyMap>>
            /\ lastDone = NoLookup
            /\ legacy = [ladderProblems |-> <<>>, allProblems |-> <<>>,
                         problemStatusMap |-> EmptyMap, tableBody |-> <<>>,
                         state |-> [selectedRating |-> NullRating, selectedTags |-> {},
                                    tagLogic |-> "OR",
                                    cfHandle |-> IF auto THEN handle ELSE <<>>]]

\* ------------------------------------------------------ catalog loading
\* fetchCsvData resumes with the parsed rows; .trim() of a missing cell
\* throws, and the catch block reports it
CsvLoaded(rows) ==
    /\ csvPending
    /\ csvPending' = FALSE
    /\ IF \E i \in 1..Len(rows) : rows[i] = NoCell
       THEN /\ statusMessage' = Message("Error loading ladder problems from CSV.", <<>>, "")
            /\ UNCHANGED ladderProblems
       ELSE /\ ladderProblems' = LadderOf(rows)
            /\ UNCHANGED statusMessage
    /\ legacy' = LegacyCsvData(legacy, rows)
    /\ UNCHANGED <<allProblems, problemsPending, merged, catalogData, state,
                   handleInput, tableBody, activeView, analytics>>
    /\ UNCHANGED <<userVars, lookupVars>>

\* readCsv rejects
CsvFailed ==
    /\ csvPending
    /\ csvPending' = FALSE
    /\ statusMessage' = Message("Error loading ladder problems from CSV.", <<>>, "")
    /\ UNCHANGED <<allProblems, ladderProblems, problemsPending, merged,
                   catalogData, state, handleInput, tableBody, activeView, analytics>>
    /\ UNCHANGED <<userVars, lookupVars, legacy>>

\* fetchProblems merging whatever envelope arrives, whatever its status
ProblemsLoadedAnyStatus(resp) ==
    /\ problemsPending
    /\ problemsPending' = FALSE
    /\ catalogData' = [done |-> TRUE, fetched |-> resp.fetched,
                       status |-> resp.status, comment |-> resp.comment]
    /\ IF resp.fetched /\ ~MergeThrows(resp.problems, resp.problemStatistics)
       THEN /\ allProblems' = MergeCatalog(resp.problems, resp.problemStatistics, ladderProblems)
            /\ merged' = [done |-> TRUE, problems |-> resp.problems,
                          problemStatistics |-> resp.problemStatistics,
                          ladderSet |-> Range(ladderProblems)]
            /\ statusMessage' = Message("Problems loaded. Select a rating.", <<>>, "")
            /\ tableBody' = ApplyFiltersAndRender(tableBody, allProblems', state, problemStatusMap)
       ELSE /\ statusMessage' = Message("Error loading problems", <<>>, "Failed to fetch")
            /\ UNCHANGED <<allProblems, merged, tableBody>>
    /\ legacy' = LegacyFetchProblems(legacy, resp)
    /\ UNCHANGED <<ladderProblems, csvPending, state, handleInput, activeView, analytics>>
    /\ UNCHANGED <<userVars, lookupVars>>

\* fetchProblems resumes with the response and runs to its end
ProblemsLoaded(resp) ==
    /\ problemsPending
    /\ problemsPending' = FALSE
    /\ catalogData' = [done |-> TRUE, fetched |-> resp.fetched,
                       status |-> resp.status, comment |-> resp.comment]
    /\ IF resp.fetched /\ resp.status = "OK"
          /\ ~MergeThrows(resp.problems, resp.problemStatistics)
       THEN /\ allProblems' = MergeCatalog(resp.problems, resp.problemStatistics, ladderProblems)
            /\ merged' = [done |-> TRUE, problems |-> resp.problems,
                          problemStatistics |-> resp.problemStatistics,
                          ladderSet |-> Range(ladderProblems)]
            /\ statusMessage' = Message("Problems loaded. Select a rating.", <<>>, "")
            /\ tableBody' = ApplyFiltersAndRender(tableBody, allProblems', state, problemStatusMap)
       ELSE /\ statusMessage' =
                Message("Error loading problems", <<>>,
                        IF ~resp.fetched THEN "Failed to fetch"
                        ELSE IF resp.status # "OK" THEN resp.comment
                        ELSE "Cannot read properties of undefined")
            /\ UNCHANGED <<allProblems, merged, tableBody>>
    /\ legacy' = LegacyFetchProblems(legacy, resp)
    /\ UNCHANGED <<ladderProblems, csvPending, state, handleInput, activeView, analytics>>
    /\ UNCHANGED <<userVars, lookupVars>>

\* ------------------------------------------------------------- lookups
\* searchBtn click or Enter in the handle box, the box holding `typed`:
\* fetchUserStatus up to its await
SearchClick(typed) ==
    LET handle == Trim(typed)
    IN  /\ handleInput' = typed
        /\ IF handle = <<>>
           THEN UNCHANGED <<state, statusMessage, problemStatusMap, userSubmissions,
                            profileInfo, inflight, foldTrace, lastDone>>
           ELSE /\ Len(inflight) < MaxInflight
                /\ state' = [state EXCEPT !.cfHandle = handle]
                /\ statusMessage' = Message("Fetching submissions", handle, "")
                /\ problemStatusMap' = ClearStatusMap(problemStatusMap)
                /\ userSubmissions' = <<>>
                /\ profileInfo' = <<>>
                /\ inflight' =
                     IF inflight = <<>> THEN <<[handle |-> handle, overlap |-> FALSE]>>
                     ELSE [i \in 1..Len(inflight) |-> [inflight[i] EXCEPT !.overlap = TRUE]]
                          \o <<[handle |-> handle, overlap |-> TRUE]>>
                /\ foldTrace' = <<ClearStatusMap(problemStatusMap)>>
                /\ lastDone' = NoLookup
        /\ legacy' = LegacySearch(legacy, typed)
        /\ UNCHANGED <<storedHandle, tableBody, activeView, analytics>>
        /\ UNCHANGED catalogVars

\* the i-th suspended fetchUserStatus resumes with its responses and runs to its end
LookupDone(i, resp) ==
    /\ i \in 1..Len(inflight)
    /\ LET call == inflight[i]
           trace == Reconcile(problemStatusMap, resp.result)
       IN  /\ inflight' = [j \in 1..(Len(inflight) - 1) |->
                              IF j < i THEN inflight[j] ELSE inflight[j + 1]]
           /\ lastDone' = [done |-> TRUE, handle |-> call.handle, overlap |-> call.overlap,
                           ok |-> ~LookupFails(resp), result |-> resp.result,
                           resp |-> resp]
           /\ IF ~LookupFails(resp)
              THEN /\ profileInfo' = call.handle
                   /\ userSubmissions' = resp.result
                   /\ foldTrace' = trace
                   /\ problemStatusMap' = trace[Len(trace)]
                   /\ statusMessage' = Message("Submissions loaded", call.handle, "")
                   /\ storedHandle' = state.cfHandle
                   /\ analytics' = IF activeView = "analytics"
                                   THEN GenerateAnalytics(analytics, resp.result)
                                   ELSE analytics
              ELSE /\ statusMessage' = Message("Error", <<>>, LookupError(resp))
                   /\ analytics' = GenerateAnalytics(analytics, <<>>)
                   /\ UNCHANGED <<profileInfo, userSubmissions, foldTrace,
                                  problemStatusMap, storedHandle>>
           /\ tableBody' = ApplyFiltersAndRender(tableBody, allProblems, state, problemStatusMap')
    /\ legacy' = LegacyUserStatus(legacy, resp)
    /\ UNCHANGED <<state, handleInput, activeView>>
    /\ UNCHANGED catalogVars

\* -------------------------------------------------------- filter events
\* click on a rating button
RatingClick(newRating) ==
    /\ state' = [state EXCEPT !.selectedRating =
                    IF state.selectedRating = newRating THEN NullRating ELSE newRating]
    /\ tableBody' = ApplyFiltersAndRender(tableBody, allProblems, state', problemStatusMap)
    /\ legacy' = LegacyRatingClick(legacy, newRating)
    /\ UNCHANGED <<handleInput, statusMessage, activeView, analytics>>
    /\ UNCHANGED <<catalogVars, userVars, lookupVars>>

\* change of the logic toggle
LogicToggle ==
    /\ state' = [state EXCEPT !.tagLogic = IF state.tagLogic = "OR" THEN "AND" ELSE "OR"]
    /\ tableBody' = ApplyFiltersAndRender(tableBody, allProblems, state', problemStatusMap)
    /\ legacy' = LegacyLogicToggle(legacy)
    /\ UNCHANGED <<handleInput, statusMessage, activeView, analytics>>
    /\ UNCHANGED <<catalogVars, userVars, lookupVars>>

\* click on a tag button
TagClick(tag) ==
    /\ state' = [state EXCEPT !.selectedTags =
                    IF tag \in state.selectedTags THEN state.selectedTags \ {tag}
                    ELSE state.selectedTags \cup {tag}]
    /\ tableBody' = ApplyFiltersAndRender(tableBody, allProblems, state', problemStatusMap)
    /\ legacy' = LegacyTagClick(legacy, tag)
    /\ UNCHANGED <<handleInput, statusMessage, activeView, analytics>>
    /\ UNCHANGED <<catalogVars, userVars, lookupVars>>

\* ----------------------------------------------------------- navigation
ProblemsLinkClick ==
    /\ activeView' = "problems"
    /\ UNCHANGED <<state, handleInput, statusMessage, tableBody, analytics>>
    /\ UNCHANGED <<catalogVars, userVars, lookupVars, legacy>>

AnalyticsLinkClick ==
    /\ activeView' = "analytics"
    /\ analytics' = IF Len(userSubmissions) > 0
                    THEN GenerateAnalytics(analytics, userSubmissions)
                    ELSE analytics
    /\ UNCHANGED <<state, handleInput, statusMessage, tableBody>>
    /\ UNCHANGED <<catalogVars, userVars, lookupVars, legacy>>

\* ------------------------------------------------------- specifications
\* The whole page: every handler, over a few responses of each kind.
Next ==
    \/ \E rows \in FewCsvFiles : CsvLoaded(rows)
    \/ CsvFailed
    \/ \E resp \in FewCatalogResponses : ProblemsLoaded(resp)
    \/ \E typed \in FewHandleInputs : SearchClick(typed)
    \/ \E i \in 1..MaxInflight, resp \in FewLookupResponses : LookupDone(i, resp)
    \/ \E r \in RatingButtons : RatingClick(r)
    \/ LogicToggle
    \/ \E tag \in FewTagButtons : TagClick(tag)
    \/ ProblemsLinkClick
    \/ AnalyticsLinkClick

Spec == Init /\ [][Next]_vars

\* The lookups of a page life: every handle typed, every pair of responses.
NextReconciler ==
    \/ \E typed \in HandleInputs : SearchClick(typed)
    \/ \E i \in 1..MaxInflight, resp \in LookupResponses : LookupDone(i, resp)

SpecReconciler == Init /\ [][NextReconciler]_vars

\* The catalog of a page life: every curated file, every catalog response,
\* and the filter events over the catalog they leave.
NextCatalog ==
    \/ \E rows \in CsvFiles : CsvLoaded(rows)
    \/ CsvFailed
    \/ \E resp \in CatalogResponses : ProblemsLoaded(resp)
    \/ \E r \in RatingButtons : RatingClick(r)
    \/ LogicToggle
    \/ \E tag \in TagButtons : TagClick(tag)

SpecCatalog == Init /\ [][NextCatalog]_vars

\* The analytics of a page life: lookups over result arrays with several
\* accepted submissions, and the two views.
NextAnalytics ==
    \/ \E typed \in FewHandleInputs : SearchClick(typed)
    \/ \E i \in 1..MaxInflight, resp \in AnalyticsResponses : LookupDone(i, resp)
    \/ ProblemsLinkClick
    \/ AnalyticsLinkClick

SpecAnalytics == Init /\ [][NextAnalytics]_vars

\* The two versions of the page side by side: the curated files, catalog and
\* user.status responses and filter events that both receive.
NextLegacy ==
    \/ \E rows \in LegacyCsvFiles : CsvLoaded(rows)
    \/ CsvFailed
    \/ \E resp \in FewCatalogResponses : ProblemsLoaded(resp)
    \/ \E typed \in FewHandleInputs : SearchClick(typed)
    \/ \E i \in 1..MaxInflight, resp \in LegacyLookupResponses : LookupDone(i, resp)
    \/ \E r \in RatingButtons : RatingClick(r)
    \/ LogicToggle
    \/ \E tag \in FewTagButtons : TagClick(tag)

SpecLegacy == Init /\ [][NextLegacy]_vars

\* ---------------------------------------------------------------------
\* Submission Reconciler: properties (checked under SpecReconciler)

\* the identities of the submissions of a result array
IdsOf(result) == {ProblemId(result[i].problem) : i \in 1..Len(result)}

\* some submission of the identity has verdict OK
HasAccepted(result, id) ==
    \E i \in 1..Len(result) :
        ProblemId(result[i].problem) = id /\ result[i].verdict = "OK"

\* the lookup resumed last got through and no other lookup was in flight with it
AloneAndLoaded == lastDone.done /\ lastDone.ok /\ ~lastDone.overlap

\* C1: within a fold, an identity that is SOLVED after some step is SOLVED
\* after every later step: no later submission makes it ATTEMPTED or removes it.
C1_SolvedStaysSolved ==
    \A i \in 1..Len(foldTrace) : \A j \in i..Len(foldTrace) :
        \A id \in DOMAIN foldTrace[i] :
            foldTrace[i][id] = "SOLVED"
                => id \in DOMAIN foldTrace[j] /\ foldTrace[j][id] = "SOLVED"

\* a fold has processed a non-accepted submission of an identity already SOLVED
C1_Witness ==
    /\ lastDone.done /\ lastDone.ok
    /\ Len(foldTrace) = Len(userSubmissions) + 1
    /\ \E k \in 1..Len(userSubmissions) :
          LET sub == Reverse(userSubmissions)[k]
          IN  /\ sub.verdict # "OK"
              /\ MapGet(foldTrace[k], ProblemId(sub.problem)) = "SOLVED"
              /\ MapGet(foldTrace[k + 1], ProblemId(sub.problem)) = "SOLVED"

\* C2: after a successful lookup that overlapped no other, an identity is
\* SOLVED iff some submission of it is OK, ATTEMPTED iff it has submissions and
\* none is OK, and has no entry iff it has no submission; the example list
\* [{P1,WA},{P1,OK},{P2,WA}] gives exactly {P1: SOLVED, P2: ATTEMPTED}.
C2_MapMatchesSubmissions ==
    AloneAndLoaded =>
        /\ \A id \in IdsOf(lastDone.result) \cup DOMAIN problemStatusMap
                     \cup {ProblemId(p) : p \in SubProblems} :
              /\ MapGet(problemStatusMap, id) = "SOLVED"
                    <=> HasAccepted(lastDone.result, id)
              /\ MapGet(problemStatusMap, id) = "ATTEMPTED"
                    <=> id \in IdsOf(lastDone.result) /\ ~HasAccepted(lastDone.result, id)
              /\ id \notin DOMAIN problemStatusMap
                    <=> id \notin IdsOf(lastDone.result)
        /\ lastDone.result = ExampleWireList
              => problemStatusMap =
                    [id \in {ProblemId(SubP1), ProblemId(SubP2)} |->
                        IF id = ProblemId(SubP1) THEN "SOLVED" ELSE "ATTEMPTED"]

\* the example list has been folded by a lookup that ran alone
C2_Witness ==
    /\ AloneAndLoaded
    /\ lastDone.result = ExampleWireList
    /\ userSubmissions = ExampleWireList
    /\ DOMAIN problemStatusMap = {<<"1", "A">>, <<"2", "B">>}
    /\ problemStatusMap[<<"1", "A">>] = "SOLVED"
    /\ problemStatusMap[<<"2", "B">>] = "ATTEMPTED"

\* C3: after a lookup that overlapped no other has completed, every entry of
\* the StatusMap comes from that lookup's own submissions, and the map is
\* empty if the lookup failed.
C3_MapHoldsOnlyThisLookup ==
    (lastDone.done /\ ~lastDone.overlap) =>
        IF lastDone.ok
        THEN \A id \in DOMAIN problemStatusMap :
                /\ id \in IdsOf(lastDone.result)
                /\ problemStatusMap[id] = "SOLVED" => HasAccepted(lastDone.result, id)
        ELSE problemStatusMap = EmptyMap

\* a lookup for "a" that ran alone has failed after an earlier lookup for "b"
\* had succeeded (only that lookup can have stored "b"), and the map is empty
C3_Witness ==
    /\ lastDone.done /\ ~lastDone.overlap /\ ~lastDone.ok
    /\ lastDone.handle = <<"a">>
    /\ storedHandle = <<"b">>
    /\ problemStatusMap = EmptyMap

\* C4, as claimed: after overlapping lookups, once the last one has completed
\* the StatusMap is the fold of that lookup's submissions alone.
C4_LastLookupAlone ==
    (inflight = <<>> /\ lastDone.done /\ lastDone.overlap) =>
        IF lastDone.ok
        THEN /\ DOMAIN problemStatusMap = IdsOf(lastDone.result)
             /\ \A id \in DOMAIN problemStatusMap :
                   problemStatusMap[id] = "SOLVED" <=> HasAccepted(lastDone.result, id)
        ELSE problemStatusMap = EmptyMap

\* C13: a lookup proceeds only if both calls succeed: the step in which a
\* lookup resumes with a non-OK HTTP response or a non-OK envelope status of
\* either call reports an error and leaves the StatusMap, the fold, the stored
\* submission history and the profile card as they were (empty, if no other
\* lookup was in flight with it); a lookup that loads got OK from both calls.
C13_BothCallsMustSucceed ==
    [][(Len(inflight') < Len(inflight)) =>
          LET r == lastDone'.resp
              bothOk == /\ r.fetched /\ r.statusHttp /\ r.infoHttp
                        /\ r.statusEnv = "OK" /\ r.infoEnv = "OK"
          IN  /\ ~bothOk =>
                    /\ statusMessage'.kind = "Error"
                    /\ problemStatusMap' = problemStatusMap
                    /\ foldTrace' = foldTrace
                    /\ userSubmissions' = userSubmissions
                    /\ profileInfo' = profileInfo
                    /\ ~lastDone'.overlap =>
                          /\ problemStatusMap' = EmptyMap
                          /\ userSubmissions' = <<>>
                          /\ profileInfo' = <<>>
              /\ statusMessage'.kind = "Submissions loaded" => bothOk]_vars

\* the user.status call came back OK with an accepted submission and the
\* user.info envelope did not: nothing of the response has been kept
C13_Witness ==
    /\ lastDone.done /\ ~lastDone.overlap
    /\ lastDone.resp.fetched /\ lastDone.resp.statusHttp /\ lastDone.resp.infoHttp
    /\ lastDone.resp.statusEnv = "OK" /\ lastDone.resp.infoEnv = "FAILED"
    /\ Len(lastDone.resp.result) > 0
    /\ statusMessage.kind = "Error"
    /\ problemStatusMap = EmptyMap
    /\ userSubmissions = <<>>
    /\ profileInfo = <<>>

\* C17, as claimed (checked under Spec): after a lookup whose calls succeeded
\* with an empty submission list, the StatusMap is empty, no lookup error is
\* reported and every row of the table is decorated as neither SOLVED nor
\* ATTEMPTED.
C17_EmptyListEmptyMap ==
    (lastDone.done /\ lastDone.ok /\ lastDone.result = <<>>) =>
        /\ statusMessage.kind # "Error"
        /\ problemStatusMap = EmptyMap
        /\ \A k \in 1..Len(tableBody) : tableBody[k].statusText = "-"

\* C18, as claimed: at page load a persisted handle has exactly one lookup in
\* flight, for that handle, and no persisted handle has none; and after a
\* successful lookup the persisted handle is the handle that lookup queried.
C18_PersistedHandleRoundTrip ==
    /\ statusMessage.kind = "Loading all problems..." =>
          inflight = IF storedHandle # <<>>
                     THEN <<[handle |-> storedHandle, overlap |-> FALSE]>>
                     ELSE <<>>
    /\ (lastDone.done /\ lastDone.ok) => storedHandle = lastDone.handle

\* C19: the fold of a response takes its submissions from the last of the wire
\* list to the first: step k of the fold touches the identity of the k-th
\* submission from the end and no other entry, so of two submissions the one
\* later in the wire list is applied before the one earlier in it.
C19_OldestFirst ==
    (lastDone.done /\ lastDone.ok) =>
        LET n == Len(lastDone.result)
        IN  /\ Len(foldTrace) = n + 1
            /\ \A k \in 1..n :
                  LET sub == lastDone.result[n + 1 - k]
                      id == ProblemId(sub.problem)
                  IN  /\ DOMAIN foldTrace[k + 1] = DOMAIN foldTrace[k] \cup {id}
                      /\ sub.verdict = "OK" => foldTrace[k + 1][id] = "SOLVED"
                      /\ \A other \in DOMAIN foldTrace[k] \ {id} :
                            foldTrace[k + 1][other] = foldTrace[k][other]

\* a wire list with 1A first and 2B second has been folded into an empty
\* map: 2B entered the map at the first step, 1A at the second
C19_Witness ==
    /\ lastDone.done /\ lastDone.ok
    /\ Len(lastDone.result) = 2
    /\ ProblemId(lastDone.result[1].problem) = <<"1", "A">>
    /\ ProblemId(lastDone.result[2].problem) = <<"2", "B">>
    /\ Len(foldTrace) = 3
    /\ DOMAIN foldTrace[1] = {}
    /\ DOMAIN foldTrace[2] = {<<"2", "B">>}
    /\ DOMAIN foldTrace[3] = {<<"1", "A">>, <<"2", "B">>}

\* the orders in which n submissions can be processed
OrdersOf(n) ==
    {f \in [1..n -> 1..n] : \A i, j \in 1..n : f[i] = f[j] => i = j}

\* C24: the map a fold ends with does not depend on the order of the
\* submissions: folding any permutation of the response's list, from the map
\* the fold started with, ends with the map the lookup left.
C24_OrderIndependent ==
    (lastDone.done /\ lastDone.ok) =>
        \A perm \in OrdersOf(Len(lastDone.result)) :
            LET subs == [i \in 1..Len(lastDone.result) |-> lastDone.result[perm[i]]]
                trace == FoldTraceFrom(foldTrace[1], subs)
            IN  trace[Len(trace)] = problemStatusMap

\* a list with a rejected and an older accepted submission of 1A has been
\* folded: 1A is SOLVED, as it is when the rejected one is processed first
C24_Witness ==
    /\ lastDone.done /\ lastDone.ok
    /\ Len(lastDone.result) = 2
    /\ lastDone.result[1] = [problem |-> SubP1, verdict |-> "WRONG_ANSWER"]
    /\ lastDone.result[2] = [problem |-> SubP1, verdict |-> "OK"]
    /\ problemStatusMap[<<"1", "A">>] = "SOLVED"
    /\ FoldTraceFrom(foldTrace[1], lastDone.result)[3] = problemStatusMap

\* C25, as claimed: local persistence is written only by a lookup completing
\* successfully, and what it writes is the handle that lookup queried.
C25_PersistsOwnHandle ==
    [][/\ (Len(inflight') < Len(inflight) /\ lastDone'.ok)
              => storedHandle' = lastDone'.handle
       /\ storedHandle' # storedHandle
              => /\ Len(inflight') < Len(inflight) /\ lastDone'.ok
                 /\ storedHandle' = lastDone'.handle]_vars

\* the identities the Analytics Aggregator counts as solved
AggregatorSolved(subs) ==
    {id \in IdsOf(subs) : HasAccepted(subs, id)}

\* C26, as claimed: whenever no lookup is in flight, the identities the
\* Aggregator would count as solved from userSubmissions are the identities
\* the StatusMap holds as SOLVED.
C26_MapAndHistoryAgree ==
    inflight = <<>> =>
        AggregatorSolved(userSubmissions) =
            {id \in DOMAIN problemStatusMap : problemStatusMap[id] = "SOLVED"}

\* ---------------------------------------------------------------------
\* Filter Engine: properties (checked under SpecCatalog)

\* the visible sequence: the problem records of the rows of the table
Visible == [k \in 1..Len(tableBody) |-> tableBody[k].problem]

\* s is t with some elements left out
RECURSIVE IsSubsequence(_, _)
IsSubsequence(s, t) ==
    IF s = <<>> THEN TRUE
    ELSE IF t = <<>> THEN FALSE
    ELSE IF Head(s) = Head(t) THEN IsSubsequence(Tail(s), Tail(t))
    ELSE IsSubsequence(s, Tail(t))

\* C5: while no rating is selected the visible sequence is empty, whatever
\* the catalog, the selected tags and the tag logic.
C5_NoRatingNoRows ==
    state.selectedRating = NullRating => Visible = <<>>

\* the filter has run over a loaded catalog with tags selected under AND and
\* no rating selected
C5_Witness ==
    /\ state.selectedRating = NullRating
    /\ state.selectedTags = {"dp"}
    /\ state.tagLogic = "AND"
    /\ Len(allProblems) = MaxProblems
    /\ \E i \in 1..Len(allProblems) : "dp" \in Range(allProblems[i].tags)
    /\ Visible = <<>>

\* C6: with a rating and some tags selected, a catalog record of that rating
\* is visible under OR iff one selected tag is among its tags, and under AND
\* iff every selected tag is.
C6_TagLogic ==
    (state.selectedRating # NullRating /\ state.selectedTags # {}) =>
        \A i \in 1..Len(allProblems) :
            LET p == allProblems[i]
            IN  p.rating = state.selectedRating =>
                    ((p \in Range(Visible)) <=>
                        IF state.tagLogic = "OR"
                        THEN state.selectedTags \cap Range(p.tags) # {}
                        ELSE state.selectedTags \subseteq Range(p.tags))

\* tags {dp, math} selected under AND: the record tagged {dp} is left out, the
\* one tagged {dp, math} is shown
C6_Witness ==
    /\ state.selectedRating = 800
    /\ state.selectedTags = {"dp", "math"}
    /\ state.tagLogic = "AND"
    /\ \E i \in 1..Len(allProblems) :
          allProblems[i].tags = <<"dp">> /\ allProblems[i] \notin Range(Visible)
    /\ \E i \in 1..Len(allProblems) :
          allProblems[i].tags = <<"dp", "math">> /\ allProblems[i] \in Range(Visible)

\* C7: with a rating and no tag selected, the visible rows are exactly the
\* catalog records of that very rating.
C7_ExactRating ==
    (state.selectedRating # NullRating /\ state.selectedTags = {}) =>
        /\ \A k \in 1..Len(Visible) : Visible[k].rating = state.selectedRating
        /\ \A i \in 1..Len(allProblems) :
              allProblems[i].rating = state.selectedRating
                  => allProblems[i] \in Range(Visible)

\* rating 800 selected over a catalog that also holds a 900 record
C7_Witness ==
    /\ state.selectedRating = 800
    /\ state.selectedTags = {}
    /\ \E i \in 1..Len(allProblems) : allProblems[i].rating = 900
    /\ Len(Visible) > 0
    /\ Len(Visible) < Len(allProblems)

\* C8: the visible sequence is a subsequence of the catalog: same relative
\* order, no record more often than in the catalog.
C8_StableFilter == IsSubsequence(Visible, allProblems)

\* two rows are shown, out of a catalog that holds a hidden record between
\* them and gives the later one the higher solved count
C8_Witness ==
    /\ Len(Visible) = 2
    /\ Len(allProblems) = 3
    /\ Visible[1] = allProblems[1]
    /\ Visible[2] = allProblems[3]
    /\ Visible[1].solvedCount < Visible[2].solvedCount

\* C9 (checked under Spec): a run of applyFiltersAndRender over the same
\* catalog and FilterState as the run before shows the same visible sequence,
\* and the step of a failed lookup, whose only work after the error report is
\* such a run, leaves the catalog, the FilterState and the StatusMap as they were.
C9_RerunSameRows ==
    [][/\ (/\ allProblems' = allProblems
           /\ state'.selectedRating = state.selectedRating
           /\ state'.selectedTags = state.selectedTags
           /\ state'.tagLogic = state.tagLogic)
          => Visible' = Visible
       /\ (Len(inflight') < Len(inflight) /\ ~lastDone'.ok)
          => /\ allProblems' = allProblems
             /\ state' = state
             /\ problemStatusMap' = problemStatusMap]_vars

\* a failed lookup has re-run the filter and rows are shown
C9_Witness ==
    /\ lastDone.done /\ ~lastDone.ok
    /\ statusMessage.kind = "Error"
    /\ state.selectedRating = 800
    /\ Len(Visible) > 0

\* every StatusMap over the given identities
StatusMapsOver(ids) == UNION {[d -> {"SOLVED", "ATTEMPTED"}] : d \in SUBSET ids}

\* C20 (checked under Spec): the StatusMap only decorates: whatever the map
\* held, a run of the filter over the current catalog and FilterState shows
\* the records the table shows, in the same rows; only status cells may differ.
C20_MapOnlyDecorates ==
    \A m \in StatusMapsOver({ProblemId(allProblems[i]) : i \in 1..Len(allProblems)}) :
        LET t == ApplyFiltersAndRender(tableBody, allProblems, state, m)
        IN  /\ Len(t) = Len(tableBody)
            /\ \A k \in 1..Len(t) :
                  /\ t[k].problem = tableBody[k].problem
                  /\ t[k].num = tableBody[k].num

\* a row is shown as solved, which another map would show with another label
C20_Witness ==
    /\ Len(tableBody) > 0
    /\ ProblemId(tableBody[1].problem) \in DOMAIN problemStatusMap
    /\ tableBody[1].statusText = "Solved"
    /\ ApplyFiltersAndRender(tableBody, allProblems, state, EmptyMap)[1].statusText = "-"

\* ---------------------------------------------------------------------
\* Problem Merger: properties (checked under SpecCatalog)

\* C10: after a successful catalog fetch the catalog holds, in the order of
\* the response, exactly the remote problems that have a rating and whose
\* identity the allow set (as the merger read it) contains, each with the
\* solvedCount of the statistics entry at its position in the response.
C10_MergedCatalog ==
    merged.done =>
        LET kept == {i \in 1..Len(merged.problems) :
                        /\ "rating" \in DOMAIN merged.problems[i]
                        /\ ProblemId(merged.problems[i]) \in merged.ladderSet}
        IN  /\ Len(allProblems) = Cardinality(kept)
            /\ \E at \in [1..Len(allProblems) -> kept] :
                  /\ \A k, l \in 1..Len(allProblems) : k < l => at[k] < at[l]
                  /\ \A k \in 1..Len(allProblems) :
                        /\ \A f \in DOMAIN merged.problems[at[k]] :
                              allProblems[k][f] = merged.problems[at[k]][f]
                        /\ DOMAIN allProblems[k] =
                              DOMAIN merged.problems[at[k]] \cup {"solvedCount"}
                        /\ allProblems[k].solvedCount =
                              merged.problemStatistics[at[k]].solvedCount

\* A (rated) and B (unrated) fetched with A in the allow set: exactly A is kept
C10_Witness ==
    /\ merged.done
    /\ merged.problems = <<R1, R2>>
    /\ ProblemId(R1) \in merged.ladderSet
    /\ Len(allProblems) = 1
    /\ ProblemId(allProblems[1]) = <<"1", "A">>
    /\ allProblems[1].solvedCount = merged.problemStatistics[1].solvedCount

\* ---------------------------------------------------------------------
\* Catalog loading: properties (checked under SpecCatalog)

\* C11, as claimed: once the curated list and the remote fetch have both
\* completed successfully, whichever came first, the catalog holds the rated
\* remote problems whose identity is in the curated list.
C11_JoinedCatalog ==
    (~csvPending /\ ~problemsPending /\ merged.done /\ ladderProblems # <<>>) =>
        allProblems = MergeCatalog(merged.problems, merged.problemStatistics,
                                   ladderProblems)

\* C12: when the catalog envelope's status is not OK, the fetch ends with the
\* error message carrying the envelope's comment, and the catalog, the merge
\* record and the table are left as they were.
C12_NonOkCatalogKept ==
    [][(/\ problemsPending /\ ~problemsPending'
        /\ catalogData'.fetched /\ catalogData'.status # "OK")
       => /\ statusMessage' = Message("Error loading problems", <<>>, catalogData'.comment)
          /\ allProblems' = allProblems
          /\ merged' = merged
          /\ tableBody' = tableBody]_vars

\* an envelope with status FAILED, carrying a rated and curated problem, has
\* arrived after the curated list: its comment is reported, nothing is merged
C12_Witness ==
    /\ catalogData.done /\ catalogData.fetched
    /\ catalogData.status = "FAILED"
    /\ catalogData.comment = "Call limit exceeded"
    /\ statusMessage = Message("Error loading problems", <<>>, "Call limit exceeded")
    /\ <<"1", "A">> \in Range(ladderProblems)
    /\ ~merged.done
    /\ allProblems = <<>>

\* ---------------------------------------------------------------------
\* Analytics Aggregator: properties

\* the analytics container shows the no-data message and hides the charts
NoDataShown(shown) == ~shown.messageHidden /\ shown.gridHidden

\* C14 (checked under Spec): the step in which a lookup fails leaves the
\* analytics in the no-data state, and after a failed lookup that overlapped
\* no other they stay in it until the next lookup starts.
C14_FailureResetsAnalytics ==
    [][/\ (Len(inflight') < Len(inflight) /\ ~lastDone'.ok) => NoDataShown(analytics')
       /\ (lastDone'.done /\ ~lastDone'.ok /\ ~lastDone'.overlap)
              => NoDataShown(analytics')]_vars

\* a lookup has failed while the analytics view showed the distributions of
\* an earlier lookup: the charts drawn for it are hidden behind the message
C14_Witness ==
    /\ lastDone.done /\ ~lastDone.ok
    /\ activeView = "analytics"
    /\ DOMAIN analytics.tagCounts # {}
    /\ NoDataShown(analytics)

\* the identities with an accepted submission
SolvedIds(subs) == {id \in IdsOf(subs) : HasAccepted(subs, id)}

\* the problem object of the first accepted submission of an identity
FirstAccepted(subs, id) ==
    LET accepted == {i \in 1..Len(subs) :
                        ProblemId(subs[i].problem) = id /\ subs[i].verdict = "OK"}
    IN  subs[CHOOSE i \in accepted : \A j \in accepted : i <= j].problem

\* the count a distribution holds for a key (none: 0)
CountOf(counts, key) == IF key \in DOMAIN counts THEN counts[key] ELSE 0

\* C15 (checked under SpecAnalytics): whenever the analytics view comes to
\* show distributions, they are those of the stored submission list reduced to
\* the first accepted submission of each identity: each tag counts the solved
\* problems carrying it, each rating the solved problems of that rating, and a
\* solved problem without rating is in no rating bucket.
C15_Distributions ==
    [][(analytics' # analytics /\ ~analytics'.gridHidden) =>
          LET subs == userSubmissions'
              solved == {FirstAccepted(subs, id) : id \in SolvedIds(subs)}
          IN  /\ analytics'.messageHidden
              /\ Cardinality(solved) = Cardinality(SolvedIds(subs))
              /\ \A tag \in {"dp", "math", "greedy"} \cup DOMAIN analytics'.tagCounts :
                    CountOf(analytics'.tagCounts, tag) =
                        Cardinality({p \in solved : tag \in Range(p.tags)})
              /\ \A r \in {800, 900, 1000} \cup DOMAIN analytics'.ratingCounts :
                    CountOf(analytics'.ratingCounts, r) =
                        Cardinality({p \in solved : "rating" \in DOMAIN p /\ p.rating = r})]_vars

\* the distributions of a list with two accepted submissions of 1A that
\* disagree on its tags and rating are shown: 1A counts once, as first seen
C15_Witness ==
    /\ activeView = "analytics"
    /\ Len(userSubmissions) = 2
    /\ userSubmissions[1] = [problem |-> SubP1Retagged, verdict |-> "OK"]
    /\ userSubmissions[2] = [problem |-> SubP1, verdict |-> "OK"]
    /\ ~analytics.gridHidden
    /\ DOMAIN analytics.tagCounts = {"math"}
    /\ analytics.tagCounts["math"] = 1
    /\ DOMAIN analytics.ratingCounts = {900}

\* C16 (checked under SpecAnalytics): every run of generateAnalytics over a
\* list without accepted submission (the empty list of a failed lookup, the
\* list of a lookup completing in the analytics view, the stored list when
\* the analytics view is opened) shows the no-data message, hides the charts
\* and leaves the distributions drawn before untouched.
C16_NoDataSignal ==
    [][(\/ Len(inflight') < Len(inflight) /\ ~lastDone'.ok
        \/ /\ Len(inflight') < Len(inflight) /\ lastDone'.ok
           /\ activeView = "analytics"
           /\ SolvedIds(lastDone'.result) = {}
        \/ /\ activeView = "problems" /\ activeView' = "analytics"
           /\ Len(userSubmissions) > 0
           /\ SolvedIds(userSubmissions) = {})
       => /\ NoDataShown(analytics')
          /\ analytics'.tagCounts = analytics.tagCounts
          /\ analytics'.ratingCounts = analytics.ratingCounts]_vars

\* a list of rejected submissions only has been aggregated in the analytics
\* view after the distributions of an earlier lookup had been drawn
C16_Witness ==
    /\ activeView = "analytics"
    /\ lastDone.done /\ lastDone.ok
    /\ Len(userSubmissions) > 0
    /\ SolvedIds(userSubmissions) = {}
    /\ NoDataShown(analytics)
    /\ DOMAIN analytics.tagCounts # {}

\* C27, as claimed (checked under SpecAnalytics): whenever the analytics
\* view is active and no lookup is in flight, it shows what generateAnalytics
\* computes from userSubmissions: the no-data signal when nothing is solved,
\* the distributions of the solved problems otherwise.
C27_AnalyticsViewCurrent ==
    (activeView = "analytics" /\ inflight = <<>>) =>
        LET solved == {FirstAccepted(userSubmissions, id) : id \in SolvedIds(userSubmissions)}
        IN  IF solved = {}
            THEN NoDataShown(analytics)
            ELSE /\ analytics.messageHidden /\ ~analytics.gridHidden
                 /\ \A tag \in {"dp", "math"} \cup DOMAIN analytics.tagCounts :
                       CountOf(analytics.tagCounts, tag) =
                           Cardinality({p \in solved : tag \in Range(p.tags)})
                 /\ \A r \in {800, 900} \cup DOMAIN analytics.ratingCounts :
                       CountOf(analytics.ratingCounts, r) =
                           Cardinality({p \in solved : "rating" \in DOMAIN p /\ p.rating = r})

\* ---------------------------------------------------------------------
\* The page as a whole: properties (checked under Spec)

\* both calls of a lookup came back OK
BothOk(r) ==
    /\ r.fetched /\ r.statusHttp /\ r.infoHttp
    /\ r.statusEnv = "OK" /\ r.infoEnv = "OK"

\* C21: the step of a failing lookup leaves the catalog, the curated list and
\* the merge record as they were, and after it the table still is the filter's
\* result over the catalog; and after a failed catalog fetch a lookup that
\* got OK from both calls (and overlapped no other) has rebuilt the StatusMap
\* from its submissions.
C21_IndependentFailures ==
    [][/\ (Len(inflight') < Len(inflight) /\ ~BothOk(lastDone'.resp)) =>
              /\ allProblems' = allProblems
              /\ ladderProblems' = ladderProblems
              /\ merged' = merged
       /\ (lastDone'.done /\ ~BothOk(lastDone'.resp) /\ Len(allProblems') > 0) =>
              tableBody' = RenderProblemTable(FilterProblems(allProblems', state'),
                                              problemStatusMap')
       /\ (/\ catalogData'.done /\ ~merged'.done
           /\ lastDone'.done /\ BothOk(lastDone'.resp) /\ ~lastDone'.overlap) =>
              /\ DOMAIN problemStatusMap' = IdsOf(lastDone'.result)
              /\ \A id \in DOMAIN problemStatusMap' :
                    problemStatusMap'[id] = "SOLVED" <=> HasAccepted(lastDone'.result, id)]_vars

\* the catalog fetch has failed and a lookup has then loaded a non-empty map
C21_Witness ==
    /\ catalogData.done /\ ~merged.done
    /\ allProblems = <<>>
    /\ lastDone.done /\ lastDone.ok /\ ~lastDone.overlap
    /\ lastDone.result = ExampleWireList
    /\ DOMAIN problemStatusMap = {<<"1", "A">>, <<"2", "B">>}

\* a rating, tag or logic event has taken place in the step
FilterEvent ==
    \/ state'.selectedRating # state.selectedRating
    \/ state'.selectedTags # state.selectedTags
    \/ state'.tagLogic # state.tagLogic

\* C22, as claimed: between the clear of a lookup and the end of that lookup
\* no rating, tag or logic event renders rows, that is, reads the StatusMap
\* for the rows the filter leaves.
C22_NoRenderMidRebuild ==
    [][~(/\ inflight # <<>>
         /\ FilterEvent
         /\ Len(allProblems) > 0
         /\ Len(FilterProblems(allProblems, state')) > 0)]_vars

\* C23, as claimed: in every state the table is the filter's result for the
\* catalog and the FilterState, decorated with the StatusMap as it is now.
C23_TableFollowsState ==
    tableBody = RenderProblemTable(FilterProblems(allProblems, state), problemStatusMap)

\* the handle box holds nothing but whitespace
BlankInput(typed) == \A i \in 1..Len(typed) : typed[i] = Space

\* C28: a search triggered while the handle box is empty or holds only
\* whitespace starts no lookup and changes nothing: the StatusMap, the stored
\* submissions, state.cfHandle, the persisted handle, the status message, the
\* profile card, the table and the calls in flight stay as they were.
C28_BlankHandleNoOp ==
    [][(BlankInput(handleInput') /\ handleInput' # handleInput) =>
          /\ inflight' = inflight
          /\ problemStatusMap' = problemStatusMap
          /\ userSubmissions' = userSubmissions
          /\ state' = state
          /\ storedHandle' = storedHandle
          /\ statusMessage' = statusMessage
          /\ profileInfo' = profileInfo
          /\ tableBody' = tableBody
          /\ analytics' = analytics]_vars

\* a search with a blank handle box has been triggered after a lookup had
\* loaded statuses: they are still there
C28_Witness ==
    /\ handleInput = <<Space>>
    /\ inflight = <<>>
    /\ statusMessage.kind = "Submissions loaded"
    /\ state.cfHandle = <<"a">>
    /\ storedHandle = <<"a">>
    /\ Len(userSubmissions) > 0
    /\ DOMAIN problemStatusMap # {}

\* ---------------------------------------------------------------------
\* The legacy script against the current one (checked under SpecLegacy)

\* C29, as claimed: fed with the same curated list, catalog response,
\* user.status responses and filter events, and with no two lookups
\* overlapping, the two versions hold the same catalog, the same StatusMap
\* and show the same records after every step.
C29_LegacyEquivalent ==
    (~lastDone.overlap /\ \A i \in 1..Len(inflight) : ~inflight[i].overlap) =>
        /\ legacy.allProblems = allProblems
        /\ legacy.problemStatusMap = problemStatusMap
        /\ [k \in 1..Len(legacy.tableBody) |-> legacy.tableBody[k].problem] = Visible

====
